---- MODULE Spec2Model ----
(***************************************************************************)
(* Model of the two scaffolding scripts of the repository:                 *)
(*   scripts/automate_better_auth.py  ("Variant A", script "better_auth")  *)
(*   scripts/automate_r2.py           ("Variant B", script "r2")           *)
(* A behaviour of Spec is a sequence of at most MaxRuns runs of either     *)
(* script against one project directory; a behaviour of SpecRender is one  *)
(* run, for every combination of answers to the prompts.  The state holds  *)
(* the directory (files, sub-directories), the binaries resolvable on      *)
(* PATH, the operator's answers on stdin, and the running script's         *)
(* position, locals, console output and the steps it has executed.         *)
(*                                                                         *)
(* automate_better_auth.py nests double quotes inside f-strings (lines     *)
(* 159, 168, 171), so it is modelled as run by an interpreter that accepts *)
(* that syntax (Python 3.12 or later).                                     *)
(***************************************************************************)
EXTENDS Integers, Sequences, FiniteSets, TLC

\* ---------------------------------------------------------------- bounds
MaxRuns  == 2      \* runs of a script against the same directory
MaxRc    == 2      \* exit statuses of an external command are 0..MaxRc
MaxSeeds == 2      \* number of distinct outcomes of the random source
MaxLength == 2     \* lengths asked of generate_secret on its own are 0..MaxLength

\* ------------------------------------------------------ program constants
SecretLength == 32

PmChoices   == {"pnpm", "npm", "yarn"}
DbChoices   == {"mysql", "postgresql"}
ModeChoices == {"presign", "direct", "both"}

alphabet ==
  << "a","b","c","d","e","f","g","h","i","j","k","l","m",
     "n","o","p","q","r","s","t","u","v","w","x","y","z",
     "A","B","C","D","E","F","G","H","I","J","K","L","M",
     "N","O","P","Q","R","S","T","U","V","W","X","Y","Z",
     "0","1","2","3","4","5","6","7","8","9" >>

\* The project path given on the command line (already absolute).
ProjectPath == "/work/app"

\* --------------------------------------------------------------- inputs
\* Outcomes of the calls to secrets.choice: the index drawn at each position.
SecretChoice(seed) == [i \in 1..SecretLength |-> ((seed * i) % Len(alphabet)) + 1]
SecretChoices == { SecretChoice(s) : s \in 1..MaxSeeds }

Prompts == {"db_user", "db_password", "db_name", "db_host"}
Typed == [db_user |-> "admin", db_password |-> "s3cret",
          db_name |-> "appdb", db_host |-> "db.internal"]
\* What the operator answers: a value to the prompts in S, an empty line to
\* the others.
Answers(S) == [p \in Prompts |-> IF p \in S THEN Typed[p] ELSE ""]

\* Content of a .env the operator maintained before any run.
USER_ENV == << "# .env maintained by the operator" >>

VARIABLES
  onPath,     \* package managers shutil.which / the shell can resolve
  stdin,      \* the operator's answer to each prompt
  gs_length,  \* the length asked of generate_secret (main asks for the default)
  isdir,      \* the project path is an existing directory
  dirs,       \* sub-directories of the project that exist
  files,      \* existing files of the project: path -> content (fragments)
  before,     \* isdir, dirs and files as they were when the current run started
  runs,       \* runs started so far
  script,     \* script of the current run
  args,       \* parsed command line of the current run
  pc,         \* position of the current run in main()
  child,      \* command line of the running child process, "" if none
  pm,         \* main()'s local pm
  secret,     \* main()'s local secret (better_auth)
  creds,      \* main()'s locals db_user, db_password, db_name, db_host
  db_url,     \* main()'s local db_url
  console,    \* lines printed by the current run (each a sequence of fragments)
  steplog,    \* steps executed by the current run, in order
  exitCode,   \* exit status of the current run, -1 until it has exited
  exitedBy    \* what ended the run: "run_cmd", "main", "exception", "return"

vars == << onPath, stdin, gs_length, isdir, dirs, files, before, runs, script, args, pc,
           child, pm, secret, creds, db_url, console, steplog, exitCode, exitedBy >>

env  == << onPath, stdin, gs_length >>
disk == << isdir, dirs, files >>
locs == << pm, secret, creds, db_url >>

NoArgs  == [pm |-> "", db |-> "", mode |-> ""]
NoCreds == [db_user |-> "", db_password |-> "", db_name |-> "", db_host |-> ""]

\* No script has run yet.
Idle ==
  /\ dirs = {}
  /\ before = [isdir |-> isdir, dirs |-> dirs, files |-> files]
  /\ runs = 0
  /\ script = ""
  /\ args = NoArgs
  /\ pc = "idle"
  /\ child = ""
  /\ pm = ""
  /\ secret = ""
  /\ creds = NoCreds
  /\ db_url = ""
  /\ console = <<>>
  /\ steplog = <<>>
  /\ exitCode = -1
  /\ exitedBy = ""

\* What can be resolved on PATH.  A run depends on it only through whether
\* the requested manager and npm are resolvable: neither, npm alone, the
\* others without npm, or all of them.
PathChoices == { {}, {"npm"}, {"pnpm", "yarn"}, PmChoices }

\* Any of these PATHs; a project path that is missing, or a directory with or
\* without a .env; an operator who accepts every default.
Init ==
  /\ onPath \in PathChoices
  /\ stdin = Answers({})
  /\ gs_length = SecretLength
  /\ isdir \in BOOLEAN
  /\ files \in IF isdir THEN { <<>>, [p \in {".env"} |-> USER_ENV] } ELSE { <<>> }
  /\ Idle

\* Every package manager installed, an existing and empty project directory,
\* and every combination of empty and non-empty answers to the prompts.
InitRender ==
  /\ onPath = PmChoices
  /\ stdin \in { Answers(S) : S \in SUBSET Prompts }
  /\ gs_length = SecretLength
  /\ isdir = TRUE
  /\ files = <<>>
  /\ Idle

\* generate_secret on its own: any requested length up to MaxLength.
InitSecret ==
  /\ onPath = PmChoices
  /\ stdin = Answers({})
  /\ gs_length \in 0..MaxLength
  /\ isdir = TRUE
  /\ files = <<>>
  /\ Idle

\* --------------------------------------------------------------- helpers
Exists(p) == p \in DOMAIN files

\* The process ends with status code; nothing of main() runs afterwards.
Exit(code, by) ==
  /\ pc' = "exited"
  /\ exitCode' = code
  /\ exitedBy' = by

\* Lines an uncaught exception leaves on stderr; the interpreter then exits 1.
Traceback(exc) == << "Traceback (most recent call last): ", exc >>

Goto(label) ==
  /\ pc' = label
  /\ UNCHANGED << exitCode, exitedBy >>

Step(kind, name, rc) == [kind |-> kind, name |-> name, rc |-> rc]

\* files with path holding content (created or wholly replaced)
Put(path, content) ==
  [p \in (DOMAIN files) \cup {path} |-> IF p = path THEN content ELSE files[p]]

\* os.makedirs(d, exist_ok=True): d and every missing ancestor below the project
Ancestors(d) ==
  CASE d = "app/api/auth/[...all]" -> {"app", "app/api", "app/api/auth", d}
    [] d = "app/api/upload"        -> {"app", "app/api", d}
    [] d = "."                     -> {}
    [] OTHER                       -> {d}

\* ------------------------------------------------------ external commands
Programs == PmChoices \cup {"npx"}

deps == "@aws-sdk/client-s3 @aws-sdk/s3-request-presigner zod"

CommandTails ==
  { " install better-auth @prisma/client", " install -D prisma",
    " dlx  prisma generate", "  prisma generate",
    " dlx  @better-auth/cli generate", "  @better-auth/cli generate",
    " dlx  prisma migrate dev --name init", "  prisma migrate dev --name init",
    " add " \o deps, " install " \o deps \o " --save" }

\* The program the shell looks up: the first word of the command line.
ShellProgram(cmd) ==
  CHOOSE b \in Programs : \E t \in CommandTails : cmd = b \o t

\* Exit statuses the child can return.  The tools are opaque: any status is
\* possible, except that a package manager the shell cannot resolve cannot
\* succeed.
ReturnCodes(cmd) ==
  IF ShellProgram(cmd) \in PmChoices \ onPath THEN 1..MaxRc ELSE 0..MaxRc

\* run_cmd, first half: print the command and spawn it through the shell in
\* the project directory; subprocess.run raises when that directory is missing.
\* (mutant) the child is started even when the working directory is missing
Spawn_AnyCwd(cmd) ==
  /\ child = ""
  /\ console' = Append(console, << "> ", cmd >>)
  /\ child' = cmd
  /\ UNCHANGED << pc, exitCode, exitedBy, steplog >>

Spawn(cmd) ==
  /\ child = ""
  /\ IF isdir
       THEN /\ console' = Append(console, << "> ", cmd >>)
            /\ child' = cmd
            /\ UNCHANGED << pc, exitCode, exitedBy >>
       ELSE /\ console' = console \o << << "> ", cmd >>, Traceback("FileNotFoundError") >>
            /\ Exit(1, "exception")
            /\ UNCHANGED child
  /\ UNCHANGED steplog

\* (mutant) after a failed command run_cmd blocks instead of exiting
Reap_Block(err, cmd, next) ==
  /\ child = cmd
  /\ child' = ""
  /\ \E rc \in ReturnCodes(cmd) :
       /\ steplog' = Append(steplog, Step("cmd", cmd, rc))
       /\ IF rc # 0
            THEN /\ console' = Append(console, << err, cmd >>)
                 /\ pc' = "blocked"
                 /\ UNCHANGED << exitCode, exitedBy >>
            ELSE /\ UNCHANGED console
                 /\ Goto(next)

\* (mutant) the error is printed but sys.exit is forgotten
Reap_NoExit(err, cmd, next) ==
  /\ child = cmd
  /\ child' = ""
  /\ \E rc \in ReturnCodes(cmd) :
       /\ steplog' = Append(steplog, Step("cmd", cmd, rc))
       /\ console' = IF rc # 0 THEN Append(console, << err, cmd >>) ELSE console
       /\ Goto(next)

\* (mutant) the run exits with the child's status: sys.exit(result.returncode)
Reap_ExitStatus(err, cmd, next) ==
  /\ child = cmd
  /\ child' = ""
  /\ \E rc \in ReturnCodes(cmd) :
       /\ steplog' = Append(steplog, Step("cmd", cmd, rc))
       /\ IF rc # 0
            THEN /\ console' = Append(console, << err, cmd >>)
                 /\ Exit(rc, "run_cmd")
            ELSE /\ UNCHANGED console
                 /\ Goto(next)

\* run_cmd, second half: the child has exited with status rc; on a nonzero
\* status print the error line and sys.exit(1), else return to the caller.
\* err is the script's error prefix, next the statement after the call.
Reap(err, cmd, next) ==
  /\ child = cmd
  /\ child' = ""
  /\ \E rc \in ReturnCodes(cmd) :
       /\ steplog' = Append(steplog, Step("cmd", cmd, rc))
       /\ IF rc # 0
            THEN /\ console' = Append(console, << err, cmd >>)
                 /\ Exit(1, "run_cmd")
            ELSE /\ UNCHANGED console
                 /\ Goto(next)

RunCmd(err, cmd, next) == Spawn(cmd) \/ Reap(err, cmd, next)

\* automate_better_auth.py run_cmd
run_cmd(cmd, next) == RunCmd("Erreur lors de l'execution de : ", cmd, next)

\* automate_r2.py run_cmd
r2_run_cmd(cmd, next) == RunCmd("[ERROR] Command failed: ", cmd, next)

\* ------------------------------------------------------------ file writes
\* (mutant) the OSError is caught and ignored: the step is skipped
WriteStep_Swallow(mkdirs, path, content, msg, next) ==
  \/ /\ isdir \/ mkdirs # {}
     /\ isdir' = TRUE
     /\ dirs' = dirs \cup UNION { Ancestors(d) : d \in mkdirs }
     /\ files' = Put(path, content)
     /\ steplog' = Append(steplog, Step("write", path, 0))
     /\ console' = Append(console, msg)
     /\ Goto(next)
  \/ /\ Goto(next)
     /\ UNCHANGED << isdir, dirs, files, steplog, console >>

\* One file-writing step: os.makedirs(exist_ok=True) on the directories in
\* mkdirs (which creates the project directory too when it is missing), open
\* the file for writing and write content over whatever it held, then print
\* msg.  open raises when the directory of the file does not exist, and the
\* operating system may refuse any of this (OSError); nobody catches either.
WriteStep(mkdirs, path, content, msg, next) ==
  \/ /\ isdir \/ mkdirs # {}
     /\ isdir' = TRUE
     /\ dirs' = dirs \cup UNION { Ancestors(d) : d \in mkdirs }
     /\ files' = Put(path, content)
     /\ steplog' = Append(steplog, Step("write", path, 0))
     /\ console' = Append(console, msg)
     /\ Goto(next)
  \/ /\ console' = Append(console, Traceback("OSError"))
     /\ Exit(1, "exception")
     /\ UNCHANGED << isdir, dirs, files, steplog >>

\* ------------------------------------------------------ start of a run
\* A script is started on the project path once no run is in progress.
\* Console and step log are per run; before records the directory as found.
BeginRun(s, a) ==
  /\ pc \in {"idle", "exited"}
  /\ runs < MaxRuns
  /\ runs' = runs + 1
  /\ script' = s
  /\ args' = a
  /\ before' = [isdir |-> isdir, dirs |-> dirs, files |-> files]
  /\ console' = <<>>
  /\ steplog' = <<>>
  /\ child' = ""
  /\ creds' = NoCreds
  /\ db_url' = ""
  /\ exitCode' = -1
  /\ exitedBy' = ""
  /\ UNCHANGED << env, disk >>

\* ===================================================== automate_better_auth
\* (messages are written here without their accents)

RECURSIVE generate_secret_short(_, _)
\* (mutant) one character too few: range(length - 1)
generate_secret_short(length, choice) ==
  IF length <= 1 THEN ""
  ELSE generate_secret_short(length - 1, choice) \o alphabet[choice[length]]

RECURSIVE generate_secret(_, _)
\* ''.join(secrets.choice(alphabet) for _ in range(length)); choice[i] is the
\* index the random source draws for position i.
generate_secret(length, choice) ==
  IF length <= 0 THEN ""
  ELSE generate_secret(length - 1, choice) \o alphabet[choice[length]]

\* what generate_secret() can return at line 125, one value per outcome of
\* the random source
GeneratedSecrets == { generate_secret(SecretLength, c) : c \in SecretChoices }

\* Outcomes of n calls to secrets.choice: every outcome of the first two
\* draws; from the third draw on the odd positions repeat the first draw and
\* the even positions the second.
Draws(n) ==
  { [i \in 1..n |-> IF i % 2 = 1 THEN a ELSE b] : a, b \in 1..Len(alphabet) }

\* generate_secret(gs_length) called on its own, for each outcome of the
\* draws of secrets.choice; the call returns the joined string.
generate_secret_call ==
  /\ pc = "idle"
  /\ \E choice \in Draws(gs_length) :
       secret' = generate_secret(gs_length, choice)
  /\ pc' = "returned"
  /\ UNCHANGED << env, disk, before, runs, script, args, child, pm, creds,
                  db_url, console, steplog, exitCode, exitedBy >>

\* Python's  a or b  on strings
Or(a, b) == IF a # "" THEN a ELSE b

db_provider == IF args.db = "mysql" THEN "mysql" ELSE "postgresql"
\* (mutant) the two ports exchanged
db_port_swapped == IF db_provider = "mysql" THEN 5432 ELSE 3306

db_port == IF db_provider = "mysql" THEN 3306 ELSE 5432

\* "pnpm dlx " if pm == "pnpm" else "npx "
dlx == IF pm = "pnpm" THEN "pnpm dlx " ELSE "npx "

InBetterAuth(label) == script = "better_auth" /\ pc = label /\ child = ""

\* main, lines 116-126: parse the command line, generate the secret
ba_parse_args ==
  \E db \in DbChoices, p \in PmChoices, sec \in GeneratedSecrets :
    /\ BeginRun("better_auth", [pm |-> p, db |-> db, mode |-> ""])
    /\ secret' = sec
    /\ pm' = p
    /\ pc' = "input_db_user"

\* main, lines 127-130: one prompt, answered from stdin, with its default
ba_input(field, prompt, default, next) ==
  /\ InBetterAuth("input_" \o field)
  /\ creds' = [creds EXCEPT ![field] = Or(stdin[field], default)]
  /\ console' = Append(console, << prompt >>)
  /\ Goto(next)
  /\ UNCHANGED << env, disk, before, runs, script, args, child, pm, secret,
                  db_url, steplog >>

\* main, lines 131-138
ba_db_url ==
  /\ InBetterAuth("db_url")
  /\ db_url' = IF db_provider = "mysql"
                 THEN "mysql://" \o creds.db_user \o ":" \o creds.db_password \o "@"
                      \o creds.db_host \o ":" \o ToString(db_port) \o "/" \o creds.db_name
                 ELSE "postgresql://" \o creds.db_user \o ":" \o creds.db_password \o "@"
                      \o creds.db_host \o ":" \o ToString(db_port) \o "/" \o creds.db_name
  /\ Goto("info")
  /\ UNCHANGED << env, disk, before, runs, script, args, child, pm, secret,
                  creds, console, steplog >>

\* main, lines 140-143
ba_info ==
  /\ InBetterAuth("info")
  /\ console' = console \o << << "Travail dans: ", ProjectPath >>,
                              << "Base de donnees: ", db_provider >>,
                              << "Gestionnaire de paquets: ", pm >>,
                              << "Secret genere: ", secret >> >>
  /\ Goto("install_auth")
  /\ UNCHANGED << env, disk, before, runs, script, args, child, locs, steplog >>

\* a call of run_cmd in main at label
ba_cmd(label, cmd, next) ==
  /\ script = "better_auth" /\ pc = label
  /\ run_cmd(cmd, next)
  /\ UNCHANGED << env, disk, before, runs, script, args, locs >>

\* (mutant) the files are written after the first install alone
ba_install_auth_then_write ==
  ba_cmd("install_auth", pm \o " install better-auth @prisma/client", "creer_env")

\* main, line 146
ba_install_auth == ba_cmd("install_auth", pm \o " install better-auth @prisma/client", "install_prisma")
\* (mutant) the generator is run right after the installs, before the files
ba_install_prisma_then_generate ==
  ba_cmd("install_prisma", pm \o " install -D prisma", "prisma_generate")

\* main, line 147
ba_install_prisma == ba_cmd("install_prisma", pm \o " install -D prisma", "creer_env")
\* main, line 159
ba_prisma_generate == ba_cmd("prisma_generate", dlx \o " prisma generate", "creer_auth_ts")
\* (mutant) the migration is run where the generator belongs
ba_cli_generate_swapped == ba_cmd("cli_generate", dlx \o " prisma migrate dev --name init", "migrate")

\* main, line 168
ba_cli_generate == ba_cmd("cli_generate", dlx \o " @better-auth/cli generate", "migrate")
\* main, line 171
ba_migrate == ba_cmd("migrate", dlx \o " prisma migrate dev --name init", "finish")

\* a call of one of the creer_* functions in main at label
ba_write(label, mkdirs, path, content, msg, next) ==
  /\ InBetterAuth(label)
  /\ WriteStep(mkdirs, path, content, msg, next)
  /\ UNCHANGED << env, before, runs, script, args, child, locs >>

ENV_BETTER_AUTH(sec, url) ==
  << "BETTER_AUTH_SECRET=", sec, "\nDATABASE_URL=\"", url,
     "\"\nBETTER_AUTH_URL=http://localhost:3000\n" >>

PRISMA_SCHEMA(provider) ==
  << "generator client { provider = \"prisma-client-js\" } datasource db { provider = \"",
     provider, "\" url = env(\"DATABASE_URL\") } model User { ... }" >>

PRISMA_CLIENT_TS == << "import { PrismaClient } from \"@prisma/client\"; ..." >>

AUTH_TS(provider) ==
  << "... export const auth = betterAuth({ database: prismaAdapter(prisma, { provider: \"",
     provider, "\", }), emailAndPassword: ..., socialProviders: ... });" >>

ROUTE_API_TS == << "... export const { POST, GET } = toNextJsHandler(auth);" >>

\* (mutant) an existing .env is kept, as automate_r2 does
creer_env_skip_if_exists ==
  /\ InBetterAuth("creer_env")
  /\ IF Exists(".env")
       THEN /\ Goto("creer_prisma_schema")
            /\ UNCHANGED << disk, steplog, console >>
       ELSE WriteStep({}, ".env", ENV_BETTER_AUTH(secret, db_url),
                      << ".env cree" >>, "creer_prisma_schema")
  /\ UNCHANGED << env, before, runs, script, args, child, locs >>

\* creer_env(path, secret, db_url), called at line 150
creer_env ==
  ba_write("creer_env", {}, ".env", ENV_BETTER_AUTH(secret, db_url),
           << ".env cree" >>, "creer_prisma_schema")

\* creer_prisma_schema(path, db_provider), called at line 153
creer_prisma_schema ==
  ba_write("creer_prisma_schema", {"prisma"}, "prisma/schema.prisma",
           PRISMA_SCHEMA(db_provider),
           << "Prisma schema cree avec un modele User simple" >>, "creer_prisma_client_ts")

\* (mutant) the client module is written to the path of a later step
creer_prisma_client_ts_wrong_path ==
  ba_write("creer_prisma_client_ts", {"lib"}, "lib/auth.ts", PRISMA_CLIENT_TS,
           << "lib/prisma.ts cree" >>, "prisma_generate")

\* creer_prisma_client_ts(path), called at line 156
creer_prisma_client_ts ==
  ba_write("creer_prisma_client_ts", {"lib"}, "lib/prisma.ts", PRISMA_CLIENT_TS,
           << "lib/prisma.ts cree" >>, "prisma_generate")

\* creer_auth_ts(path, db_provider), called at line 162
creer_auth_ts ==
  ba_write("creer_auth_ts", {"lib"}, "lib/auth.ts", AUTH_TS(db_provider),
           << "auth.ts cree" >>, "creer_route_api")

\* creer_route_api(path), called at line 165
creer_route_api ==
  ba_write("creer_route_api", {"app/api/auth/[...all]"},
           "app/api/auth/[...all]/route.ts", ROUTE_API_TS,
           << "route.ts API cree" >>, "cli_generate")

\* main, line 173, then the interpreter exits with status 0
ba_finish ==
  /\ InBetterAuth("finish")
  /\ console' = Append(console, << "=== Automatisation terminee ===" >>)
  /\ Exit(0, "return")
  /\ UNCHANGED << env, disk, before, runs, script, args, child, locs, steplog >>

better_auth_main ==
  \/ ba_parse_args
  \/ ba_input("db_user", "Entrez le nom d'utilisateur de la base de donnees: ", "root", "input_db_password")
  \/ ba_input("db_password", "Entrez le mot de passe de la base de donnees: ", "", "input_db_name")
  \/ ba_input("db_name", "Entrez le nom de la base de donnees: ", "better_auth", "input_db_host")
  \/ ba_input("db_host", "Entrez l'hote de la base de donnees: ", "localhost", "db_url")
  \/ ba_db_url
  \/ ba_info
  \/ ba_install_auth
  \/ ba_install_prisma
  \/ creer_env
  \/ creer_prisma_schema
  \/ creer_prisma_client_ts
  \/ ba_prisma_generate
  \/ creer_auth_ts
  \/ creer_route_api
  \/ ba_cli_generate
  \/ ba_migrate
  \/ ba_finish

\* ============================================================= automate_r2
ENV_TEMPLATE      == << "ENV_TEMPLATE" >>
LIB_S3_PRESIGN    == << "LIB_S3_PRESIGN" >>
LIB_S3_DIRECT     == << "LIB_S3_DIRECT" >>
LIB_S3_BOTH       == << "LIB_S3_BOTH" >>
API_ROUTE_PRESIGN == << "API_ROUTE_PRESIGN" >>
API_ROUTE_DIRECT  == << "API_ROUTE_DIRECT" >>
API_ROUTE_BOTH    == << "API_ROUTE_BOTH" >>

InR2(label) == script = "r2" /\ pc = label /\ child = ""

\* write_file(path, content): ensure_dir(dirname), write, print
write_file(mkdirs, path, content, next) ==
  WriteStep(mkdirs, path, content, << "[OK] Wrote ", ProjectPath \o "/" \o path >>, next)

\* main, lines 253-261
r2_parse_args ==
  \E mode \in ModeChoices, p \in PmChoices :
    /\ BeginRun("r2", [pm |-> p, db |-> "", mode |-> mode])
    /\ pm' = p
    /\ secret' = ""
    /\ pc' = "check_project"

\* (mutant) the existence check is missing
r2_check_project_unchecked ==
  /\ InR2("check_project")
  /\ Goto("check_pm")
  /\ UNCHANGED << env, disk, before, runs, script, args, child, locs, steplog, console >>

\* main, lines 263-265
r2_check_project ==
  /\ InR2("check_project")
  /\ IF ~isdir
       THEN /\ console' = Append(console, << "[ERROR] Project path does not exist: ", ProjectPath >>)
            /\ Exit(1, "main")
       ELSE /\ UNCHANGED console
            /\ Goto("check_pm")
  /\ UNCHANGED << env, disk, before, runs, script, args, child, locs, steplog >>

\* (mutant) only pnpm falls back
r2_check_pm_pnpm_only ==
  /\ InR2("check_pm")
  /\ IF pm = "pnpm" /\ "pnpm" \notin onPath
       THEN /\ console' = Append(console, << "[WARN] pnpm not found on PATH, falling back to npm." >>)
            /\ pm' = "npm"
       ELSE UNCHANGED << console, pm >>
  /\ Goto("info")
  /\ UNCHANGED << env, disk, before, runs, script, args, child, secret, creds,
                  db_url, steplog >>

\* main, lines 267-273: shutil.which(pm) is None  iff  pm is not on PATH
r2_check_pm ==
  /\ InR2("check_pm")
  /\ IF pm = "pnpm" /\ "pnpm" \notin onPath
       THEN /\ console' = Append(console, << "[WARN] pnpm not found on PATH, falling back to npm." >>)
            /\ pm' = "npm"
       ELSE IF pm = "yarn" /\ "yarn" \notin onPath
       THEN /\ console' = Append(console, << "[WARN] yarn not found on PATH, falling back to npm." >>)
            /\ pm' = "npm"
       ELSE UNCHANGED << console, pm >>
  /\ Goto("info")
  /\ UNCHANGED << env, disk, before, runs, script, args, child, secret, creds,
                  db_url, steplog >>

\* main, lines 278-280
r2_info ==
  /\ InR2("info")
  /\ console' = console \o << << "[INFO] Project: ", ProjectPath >>,
                              << "[INFO] Mode: ", args.mode >>,
                              << "[INFO] Package manager: ", pm >> >>
  /\ Goto("install")
  /\ UNCHANGED << env, disk, before, runs, script, args, child, locs, steplog >>

\* main, lines 283-288
install_cmd ==
  IF pm = "pnpm" THEN "pnpm add " \o deps
  ELSE IF pm = "yarn" THEN "yarn add " \o deps
  ELSE "npm install " \o deps \o " --save"

\* main, line 290
r2_install ==
  /\ script = "r2" /\ pc = "install"
  /\ r2_run_cmd(install_cmd, "env")
  /\ UNCHANGED << env, disk, before, runs, script, args, locs >>

\* (mutant) .env is written whether or not it exists
r2_env_overwrite ==
  /\ InR2("env")
  /\ write_file({"."}, ".env", ENV_TEMPLATE, "lib_s3")
  /\ UNCHANGED << env, before, runs, script, args, child, locs >>

\* main, lines 293-297
r2_env ==
  /\ InR2("env")
  /\ IF Exists(".env")
       THEN /\ console' = Append(console, << "[WARN] .env already exists at ",
                                            ProjectPath \o "/.env", " - not overwriting" >>)
            /\ Goto("lib_s3")
            /\ UNCHANGED << disk, steplog >>
       ELSE write_file({"."}, ".env", ENV_TEMPLATE, "lib_s3")
  /\ UNCHANGED << env, before, runs, script, args, child, locs >>

\* main, lines 300-309
r2_lib_s3 ==
  /\ InR2("lib_s3")
  /\ IF args.mode = "presign" THEN write_file({"lib"}, "lib/s3.ts", LIB_S3_PRESIGN, "route")
     ELSE IF args.mode = "direct" THEN write_file({"lib"}, "lib/s3.ts", LIB_S3_DIRECT, "route")
     ELSE write_file({"lib"}, "lib/s3.ts", LIB_S3_BOTH, "route")
  /\ UNCHANGED << env, before, runs, script, args, child, locs >>

\* (mutant) the route of mode direct is the combined one
r2_route_mixed ==
  /\ InR2("route")
  /\ IF args.mode = "presign"
       THEN write_file({"app/api/upload"}, "app/api/upload/route.ts", API_ROUTE_PRESIGN, "finish")
     ELSE write_file({"app/api/upload"}, "app/api/upload/route.ts", API_ROUTE_BOTH, "finish")
  /\ UNCHANGED << env, before, runs, script, args, child, locs >>

\* main, lines 312-321
r2_route ==
  /\ InR2("route")
  /\ IF args.mode = "presign"
       THEN write_file({"app/api/upload"}, "app/api/upload/route.ts", API_ROUTE_PRESIGN, "finish")
     ELSE IF args.mode = "direct"
       THEN write_file({"app/api/upload"}, "app/api/upload/route.ts", API_ROUTE_DIRECT, "finish")
     ELSE write_file({"app/api/upload"}, "app/api/upload/route.ts", API_ROUTE_BOTH, "finish")
  /\ UNCHANGED << env, before, runs, script, args, child, locs >>

\* main, lines 324-337, then the interpreter exits with status 0
r2_finish ==
  /\ InR2("finish")
  /\ console' = console \o << << "[FINISHED] R2 scaffolding created." >>,
                              << "  1) Fill .env at: ", ProjectPath \o "/.env",
                                 " with your R2 credentials and bucket name." >>,
                              << "[DONE]" >> >>
  /\ Exit(0, "return")
  /\ UNCHANGED << env, disk, before, runs, script, args, child, locs, steplog >>

r2_main ==
  \/ r2_parse_args
  \/ r2_check_project
  \/ r2_check_pm
  \/ r2_info
  \/ r2_install
  \/ r2_env
  \/ r2_lib_s3
  \/ r2_route
  \/ r2_finish

\* ============================================================ specification
Next == better_auth_main \/ r2_main

Spec == Init /\ [][Next]_vars

\* a single run of either script
NextOnce == Next /\ runs' = 1

SpecRender == InitRender /\ [][NextOnce]_vars

\* The statements of main run one after the other: whatever the interpreter
\* can do on its own, or once the operator has answered a prompt, it does.
\* Nothing makes a spawned child exit.
Proceed == NextOnce /\ child = ""

SpecLive == Init /\ [][NextOnce]_vars /\ WF_vars(Proceed)

\* calls of generate_secret alone
NextSecret == generate_secret_call

SpecSecret == InitSecret /\ [][NextSecret]_vars

TypeOK ==
  /\ onPath \subseteq PmChoices
  /\ isdir \in BOOLEAN
  /\ runs \in 0..MaxRuns
  /\ script \in {"", "better_auth", "r2"}
  /\ exitCode \in {-1, 0, 1}
  /\ (pc = "exited") = (exitCode # -1)

\* ================================================================== claims
IsCmd(s)   == s.kind = "cmd"
IsWrite(s) == s.kind = "write"
Failed(s)  == s.kind = "cmd" /\ s.rc # 0

\* names of the commands executed by the current run, in order
CmdNames == [i \in 1..Len(SelectSeq(steplog, IsCmd)) |-> SelectSeq(steplog, IsCmd)[i].name]
\* paths written by the current run
Written == { steplog[i].name : i \in { j \in 1..Len(steplog) : IsWrite(steplog[j]) } }
Fragments(line) == { line[j] : j \in 1..Len(line) }
Printed(line) == \E i \in 1..Len(console) : console[i] = line
IsPrefix(s, t) == Len(s) <= Len(t) /\ \A i \in 1..Len(s) : s[i] = t[i]

\* C1 -- fail-fast, both scripts: a command that returned a nonzero status is
\* the last step the run executed (no write and no command follows it), and
\* the run has terminated with a nonzero exit status.
C1_FailFast ==
  \A k \in 1..Len(steplog) :
    Failed(steplog[k]) =>
      /\ k = Len(steplog)
      /\ child = ""
      /\ pc = "exited"
      /\ exitCode > 0

\* prisma generate (the sixth step of better_auth) failed after five steps
C1_Witness ==
  /\ script = "better_auth"
  /\ Len(steplog) = 6
  /\ Failed(steplog[6])
  /\ pc = "exited"

\* C2 -- automate_r2 on a project path that is not a directory: once past the
\* check the run has exited with status 1, having printed only the error,
\* spawned no command and left the directory, its sub-directories and its
\* files as they were.
C2_MissingProject ==
  (script = "r2" /\ ~before.isdir /\ pc # "check_project") =>
    /\ pc = "exited"
    /\ exitCode = 1
    /\ exitedBy = "main"
    /\ Len(console) = 1
    /\ steplog = <<>>
    /\ child = ""
    /\ isdir = before.isdir
    /\ dirs = before.dirs
    /\ files = before.files

C2_Witness ==
  /\ script = "r2"
  /\ args.mode = "direct"
  /\ ~before.isdir
  /\ pc = "exited"

EnvWarned ==
  \E i \in 1..Len(console) : console[i][1] = "[WARN] .env already exists at "
PastEnv == pc \in {"lib_s3", "route", "finish"} \/ (pc = "exited" /\ exitedBy = "return")

\* C3 -- automate_r2 and an existing .env: the file keeps the content it had
\* when the run started and is not written; once the .env step is passed the
\* warning has been printed, and the run goes on to lib/s3.ts and route.ts
\* (it is not ended by main or by run_cmd after the warning, and a run that
\* returns has written both).  Only a .env that was absent is written, with
\* the template.
C3_EnvSkipIfExists ==
  script = "r2" =>
    /\ ".env" \in DOMAIN before.files =>
         /\ Exists(".env")
         /\ files[".env"] = before.files[".env"]
         /\ ".env" \notin Written
         /\ PastEnv => EnvWarned
    /\ EnvWarned =>
         /\ ".env" \in DOMAIN before.files
         /\ pc \in {"lib_s3", "route", "finish", "exited"}
         /\ pc = "exited" => exitedBy \in {"return", "exception"}
         /\ exitedBy = "return" => {"lib/s3.ts", "app/api/upload/route.ts"} \subseteq Written
    /\ ".env" \notin DOMAIN before.files =>
         /\ ~EnvWarned
         /\ PastEnv => (".env" \in Written /\ files[".env"] = ENV_TEMPLATE)
         /\ ".env" \in Written => files[".env"] = ENV_TEMPLATE

\* a rerun of automate_r2 on a directory whose .env an earlier run left
C3_Witness ==
  /\ script = "r2"
  /\ runs = 2
  /\ ".env" \in DOMAIN before.files
  /\ EnvWarned
  /\ exitedBy = "return"
  /\ files[".env"] = before.files[".env"]

FiveFiles ==
  { ".env", "prisma/schema.prisma", "lib/prisma.ts", "lib/auth.ts",
    "app/api/auth/[...all]/route.ts" }
ZeroCmds == { i \in 1..Len(steplog) : IsCmd(steplog[i]) /\ steplog[i].rc = 0 }

\* C4 -- exit status of automate_better_auth: a run that has exited has status
\* 0 exactly when five commands returned zero and the five files were
\* written (and exist), and status 1 when a command failed.
C4_ExitStatus ==
  (script = "better_auth" /\ pc = "exited") =>
    /\ (exitCode = 0) <=>
         /\ Cardinality(ZeroCmds) = 5
         /\ Written = FiveFiles
         /\ \A f \in FiveFiles : Exists(f)
    /\ (\E k \in 1..Len(steplog) : Failed(steplog[k])) => exitCode = 1

C4_Witness ==
  /\ script = "better_auth"
  /\ pc = "exited"
  /\ exitCode = 0
  /\ Cardinality(ZeroCmds) = 5

\* the command lines of the fixed sequence, per package manager
ExpectedCommands(p) ==
  CASE p = "pnpm" ->
         << "pnpm install better-auth @prisma/client", "pnpm install -D prisma",
            "pnpm dlx  prisma generate", "pnpm dlx  @better-auth/cli generate",
            "pnpm dlx  prisma migrate dev --name init" >>
    [] p = "npm" ->
         << "npm install better-auth @prisma/client", "npm install -D prisma",
            "npx  prisma generate", "npx  @better-auth/cli generate",
            "npx  prisma migrate dev --name init" >>
    [] p = "yarn" ->
         << "yarn install better-auth @prisma/client", "yarn install -D prisma",
            "npx  prisma generate", "npx  @better-auth/cli generate",
            "npx  prisma migrate dev --name init" >>

\* C5 -- command order of automate_better_auth: the commands executed so far
\* are a prefix of the fixed sequence (so each at most once, in that order),
\* a running child is the next command of the sequence, and a run that
\* exited with status 0 executed the whole sequence.
C5_CommandOrder ==
  script = "better_auth" =>
    /\ IsPrefix(CmdNames, ExpectedCommands(args.pm))
    /\ child # "" =>
         /\ Len(CmdNames) < 5
         /\ child = ExpectedCommands(args.pm)[Len(CmdNames) + 1]
    /\ exitCode = 0 => CmdNames = ExpectedCommands(args.pm)

C5_Witness ==
  /\ script = "better_auth"
  /\ args.pm = "yarn"
  /\ exitCode = 0
  /\ Len(CmdNames) = 5

\* the first command of either script is its (first) dependency install
InstallStarted == steplog # <<>> \/ child # ""
InstallCmd == IF steplog # <<>> THEN steplog[1].name ELSE child
PmWarning(p) == << "[WARN] " \o p \o " not found on PATH, falling back to npm." >>
PmWarned == \E p \in PmChoices : Printed(PmWarning(p))

\* C6 as stated -- whenever the requested package manager is not resolvable
\* the run warns and installs with npm, and a resolvable one is the one used.
C6_DegradeAlways ==
  InstallStarted =>
    IF args.pm \notin onPath
      THEN PmWarned /\ ShellProgram(InstallCmd) = "npm"
      ELSE ShellProgram(InstallCmd) = args.pm

\* C6 amended -- only automate_r2 degrades, and only from pnpm or yarn: when
\* the requested manager is pnpm or yarn and is not resolvable, the warning
\* naming it is printed and the install runs with npm; in every other case
\* (resolvable, or npm requested, or automate_better_auth) the install runs
\* with the requested manager and no such warning is printed.  The mismatch
\* never ends the run: automate_r2 on an existing directory always reaches
\* the install.
C6_DegradeR2Only ==
  /\ InstallStarted =>
       IF script = "r2" /\ args.pm \in {"pnpm", "yarn"} /\ args.pm \notin onPath
         THEN Printed(PmWarning(args.pm)) /\ ShellProgram(InstallCmd) = "npm"
         ELSE ~PmWarned /\ ShellProgram(InstallCmd) = args.pm
  /\ (script = "r2" /\ before.isdir /\ pc = "exited") => steplog # <<>>

\* mode both, pnpm requested but absent: warning, npm, install succeeded
C6_Witness ==
  /\ script = "r2"
  /\ args.mode = "both"
  /\ args.pm = "pnpm"
  /\ "pnpm" \notin onPath
  /\ Printed(PmWarning("pnpm"))
  /\ steplog # <<>>
  /\ steplog[1] = Step("cmd", "npm install " \o deps \o " --save", 0)

\* C7 -- the secret of automate_better_auth never appears on the console.
C7_SecretNotPrinted ==
  script = "better_auth" =>
    \A i \in 1..Len(console) : secret \notin Fragments(console[i])

LastStep == steplog[Len(steplog)]
LastLine == console[Len(console)]
ErrorPrefixes == { "Erreur lors de l'execution de : ", "[ERROR] Command failed: " }

\* C8 as stated -- a failed command is reported with its command line and its
\* exit status, and it is not run_cmd that ends the run.
C8_ErrorCarriesStatus ==
  (steplog # <<>> /\ Failed(LastStep)) =>
    /\ LastStep.name \in Fragments(LastLine)
    /\ ToString(LastStep.rc) \in Fragments(LastLine)
    /\ exitedBy # "run_cmd"

\* C8 amended -- a failed command is reported by one console line made of the
\* script's error prefix and the command line, without the exit status; it
\* is run_cmd itself that ends the run, always with status 1 whatever the
\* child returned, and run_cmd ends the run in no other case.
C8_RunCmdExits ==
  /\ (steplog # <<>> /\ Failed(LastStep)) =>
       /\ Len(LastLine) = 2
       /\ LastLine[1] \in ErrorPrefixes
       /\ LastLine[2] = LastStep.name
       /\ ToString(LastStep.rc) \notin Fragments(LastLine)
       /\ pc = "exited"
       /\ exitedBy = "run_cmd"
       /\ exitCode = 1
  /\ exitedBy = "run_cmd" => (steplog # <<>> /\ Failed(LastStep))

\* the child returned 2 and the run exited with 1
C8_Witness ==
  /\ steplog # <<>>
  /\ LastStep.kind = "cmd"
  /\ LastStep.rc = 2
  /\ exitedBy = "run_cmd"
  /\ exitCode = 1

\* the answer to a prompt, or its documented default when it is empty
Answer(field) ==
  IF stdin[field] # "" THEN stdin[field]
  ELSE CASE field = "db_user"     -> "root"
         [] field = "db_password" -> ""
         [] field = "db_name"     -> "better_auth"
         [] field = "db_host"     -> "localhost"
ExpectedPort == [mysql |-> "3306", postgresql |-> "5432"]
ExpectedUrl ==
  args.db \o "://" \o Answer("db_user") \o ":" \o Answer("db_password") \o "@"
    \o Answer("db_host") \o ":" \o ExpectedPort[args.db] \o "/" \o Answer("db_name")

\* C9 -- rendering of automate_better_auth: the .env the run wrote holds, as
\* DATABASE_URL, <db>://<user>:<password>@<host>:<port>/<name> with the port
\* of the db and the default of every empty answer, and a 32-character
\* secret; the schema and auth.ts the run wrote name the selected db as
\* provider.  With postgresql and all answers empty the URL is
\* postgresql://root:@localhost:5432/better_auth.
C9_Rendering ==
  script = "better_auth" =>
    /\ ".env" \in Written =>
         /\ Len(files[".env"]) = 5
         /\ files[".env"][3] = "\nDATABASE_URL=\""
         /\ files[".env"][4] = ExpectedUrl
         /\ files[".env"][1] = "BETTER_AUTH_SECRET="
         /\ Len(files[".env"][2]) = 32
         /\ (args.db = "postgresql" /\ stdin = Answers({})) =>
              files[".env"][4] = "postgresql://root:@localhost:5432/better_auth"
    /\ "prisma/schema.prisma" \in Written => files["prisma/schema.prisma"][2] = args.db
    /\ "lib/auth.ts" \in Written => files["lib/auth.ts"][2] = args.db

\* the scenario: postgresql, npm, every answer empty
C9_Witness ==
  /\ script = "better_auth"
  /\ args = [pm |-> "npm", db |-> "postgresql", mode |-> ""]
  /\ stdin = Answers({})
  /\ Written = FiveFiles
  /\ files[".env"][4] = "postgresql://root:@localhost:5432/better_auth"
  /\ Len(files[".env"][2]) = 32
  /\ files["prisma/schema.prisma"][2] = "postgresql"

S3_TS    == "lib/s3.ts"
ROUTE_TS == "app/api/upload/route.ts"
ExpectedClient == [presign |-> LIB_S3_PRESIGN, direct |-> LIB_S3_DIRECT, both |-> LIB_S3_BOTH]
ExpectedRoute  == [presign |-> API_ROUTE_PRESIGN, direct |-> API_ROUTE_DIRECT, both |-> API_ROUTE_BOTH]

\* C10 -- mode selection of automate_r2: a run that completes has written
\* both lib/s3.ts and app/api/upload/route.ts, and whatever the directory
\* held before, each file the run wrote is the template of the selected mode.
C10_ModeSelection ==
  script = "r2" =>
    /\ exitedBy = "return" => {S3_TS, ROUTE_TS} \subseteq Written
    /\ S3_TS \in Written => files[S3_TS] = ExpectedClient[args.mode]
    /\ ROUTE_TS \in Written => files[ROUTE_TS] = ExpectedRoute[args.mode]

\* a rerun in mode direct over the files an earlier run in another mode left
C10_Witness ==
  /\ script = "r2"
  /\ exitedBy = "return"
  /\ args.mode = "direct"
  /\ S3_TS \in DOMAIN before.files
  /\ ROUTE_TS \in DOMAIN before.files
  /\ before.files[S3_TS] # LIB_S3_DIRECT
  /\ before.files[ROUTE_TS] # API_ROUTE_DIRECT
  /\ files[S3_TS] = LIB_S3_DIRECT
  /\ files[ROUTE_TS] = API_ROUTE_DIRECT

\* the 62 symbols: a-z, A-Z, 0-9
Symbols ==
  { "a","b","c","d","e","f","g","h","i","j","k","l","m","n","o","p","q","r",
    "s","t","u","v","w","x","y","z",
    "A","B","C","D","E","F","G","H","I","J","K","L","M","N","O","P","Q","R",
    "S","T","U","V","W","X","Y","Z",
    "0","1","2","3","4","5","6","7","8","9" }
\* the string of n symbols with a at its odd and b at its even positions
RECURSIVE Alternating(_, _, _)
Alternating(a, b, n) ==
  IF n = 0 THEN "" ELSE Alternating(a, b, n - 1) \o (IF n % 2 = 1 THEN a ELSE b)
WordsOf(n) == { Alternating(a, b, n) : a, b \in Symbols }
\* for the lengths asked, the strings of n symbols a call can be seen to
\* return: every string of one or two symbols, the alternating ones beyond
Words == [n \in 0..MaxLength |-> WordsOf(n)]

\* C11 -- generate_secret, for every requested length L >= 1: a call can
\* always return, and what it returned has exactly L characters, each one of
\* the 62 symbols, so it is never empty.
C11_SecretShape ==
  /\ pc = "idle" => ENABLED generate_secret_call
  /\ (pc = "returned" /\ gs_length >= 1) =>
       /\ Len(secret) = gs_length
       /\ secret # ""
       /\ secret \in Words[gs_length]

\* a call for two characters returned the last symbols of two ranges
C11_Witness ==
  /\ pc = "returned"
  /\ gs_length = 2
  /\ secret = "Z9"

Aborted == pc = "exited" /\ exitCode # 0
StepNames == [i \in 1..Len(steplog) |-> steplog[i].name]
AllPaths == FiveFiles \cup {S3_TS, ROUTE_TS}

\* the declared order of the steps of the current run
DeclaredSteps ==
  IF script = "better_auth"
    THEN << ExpectedCommands(args.pm)[1], ExpectedCommands(args.pm)[2],
            ".env", "prisma/schema.prisma", "lib/prisma.ts",
            ExpectedCommands(args.pm)[3],
            "lib/auth.ts", "app/api/auth/[...all]/route.ts",
            ExpectedCommands(args.pm)[4], ExpectedCommands(args.pm)[5] >>
    ELSE << install_cmd >>
         \o (IF ".env" \in DOMAIN before.files THEN <<>> ELSE << ".env" >>)
         \o << S3_TS, ROUTE_TS >>

\* what the step of the current run that writes f writes into it
StepContent(f) ==
  CASE f = ".env" ->
         IF script = "better_auth" THEN ENV_BETTER_AUTH(secret, db_url) ELSE ENV_TEMPLATE
    [] f = "prisma/schema.prisma" -> PRISMA_SCHEMA(args.db)
    [] f = "lib/prisma.ts" -> PRISMA_CLIENT_TS
    [] f = "lib/auth.ts" -> AUTH_TS(args.db)
    [] f = "app/api/auth/[...all]/route.ts" -> ROUTE_API_TS
    [] f = S3_TS -> ExpectedClient[args.mode]
    [] f = ROUTE_TS -> ExpectedRoute[args.mode]

\* C12 -- no rollback: in a run that aborted, the steps executed are a prefix
\* of the declared order; every file written by one of them is present with
\* the content that step wrote, and every other file is as it was when the
\* run started (absent if it was absent, unchanged if it existed).  A failing
\* prisma generate leaves .env, prisma/schema.prisma and lib/prisma.ts
\* written and lib/auth.ts and the route file untouched.
C12_NoRollback ==
  Aborted =>
    /\ IsPrefix(StepNames, DeclaredSteps)
    /\ \A f \in Written : Exists(f) /\ files[f] = StepContent(f)
    /\ \A f \in AllPaths \ Written :
         /\ Exists(f) <=> f \in DOMAIN before.files
         /\ Exists(f) => files[f] = before.files[f]
    /\ (script = "better_auth" /\ Len(steplog) = 6 /\ Failed(steplog[6])) =>
         Written = { ".env", "prisma/schema.prisma", "lib/prisma.ts" }

\* prisma generate failed in a fresh directory: three files, not the others
C12_Witness ==
  /\ script = "better_auth"
  /\ Aborted
  /\ Len(steplog) = 6
  /\ LastStep = Step("cmd", ExpectedCommands(args.pm)[3], 1)
  /\ DOMAIN files = { ".env", "prisma/schema.prisma", "lib/prisma.ts" }
  /\ files[".env"] = ENV_BETTER_AUTH(secret, db_url)

Started(c) == child = c \/ \E i \in 1..Len(steplog) : steplog[i].kind = "cmd" /\ steplog[i].name = c
Succeeded(c) == \E i \in 1..Len(steplog) : steplog[i] = Step("cmd", c, 0)

\* C13 -- step dependencies of automate_better_auth: prisma generate has
\* started only if both installs returned zero and .env and
\* prisma/schema.prisma were written; @better-auth/cli generate only if
\* lib/prisma.ts, lib/auth.ts and the route file were written and prisma
\* generate returned zero; prisma migrate dev only if all five files were
\* written and @better-auth/cli generate returned zero.
C13_StepDependencies ==
  script = "better_auth" =>
    LET E == ExpectedCommands(args.pm) IN
    /\ Started(E[3]) =>
         /\ Succeeded(E[1]) /\ Succeeded(E[2])
         /\ { ".env", "prisma/schema.prisma" } \subseteq Written
    /\ Started(E[4]) =>
         /\ Succeeded(E[3])
         /\ { "lib/prisma.ts", "lib/auth.ts", "app/api/auth/[...all]/route.ts" } \subseteq Written
    /\ Started(E[5]) =>
         /\ Succeeded(E[4])
         /\ Written = FiveFiles

\* the migration is running
C13_Witness ==
  /\ script = "better_auth"
  /\ child = ExpectedCommands(args.pm)[5]
  /\ Written = FiveFiles
  /\ Succeeded(ExpectedCommands(args.pm)[4])

PastCreerEnv ==
  pc \in { "creer_prisma_schema", "creer_prisma_client_ts", "prisma_generate",
           "creer_auth_ts", "creer_route_api", "cli_generate", "migrate", "finish" }
Warned == \E i \in 1..Len(console) : console[i][1] = "[WARN] .env already exists at "
                                      \/ \E p \in PmChoices : console[i] = PmWarning(p)

\* C14 -- overwrite policy of automate_better_auth: a run that has passed the
\* .env step has written .env whatever the directory held (no existence
\* check), and never prints a warning; each of the five files the run wrote
\* holds exactly what this run rendered, so .env holds this run's secret and
\* nothing of its earlier content; after a successful run, also a rerun, all
\* five files hold this run's rendering.
C14_AlwaysOverwrite ==
  script = "better_auth" =>
    /\ PastCreerEnv => ".env" \in Written
    /\ ~Warned
    /\ \A f \in Written : Exists(f) /\ files[f] = StepContent(f)
    /\ ".env" \in Written =>
         /\ Len(files[".env"]) = 5
         /\ files[".env"][2] = secret
    /\ exitCode = 0 => \A f \in FiveFiles : Exists(f) /\ files[f] = StepContent(f)

\* a successful rerun over the five files of an earlier run with another
\* secret and another db
C14_Witness ==
  /\ script = "better_auth"
  /\ runs = 2
  /\ exitCode = 0
  /\ FiveFiles \subseteq DOMAIN before.files
  /\ before.files[".env"][1] = "BETTER_AUTH_SECRET="
  /\ before.files[".env"][2] # secret
  /\ before.files["lib/auth.ts"] # AUTH_TS(args.db)
  /\ files[".env"] = ENV_BETTER_AUTH(secret, db_url)
  /\ files["lib/auth.ts"] = AUTH_TS(args.db)

\* the run has created or modified something below the project path
Touched ==
  \/ << isdir, dirs, files >> # << before.isdir, before.dirs, before.files >>
  \/ Written # {}
\* the dependency installs of the running script, in order
Installs ==
  IF script = "better_auth"
    THEN << ExpectedCommands(args.pm)[1], ExpectedCommands(args.pm)[2] >>
    ELSE << install_cmd >>
InstallsDone ==
  /\ Len(steplog) >= Len(Installs)
  /\ \A i \in 1..Len(Installs) : steplog[i] = Step("cmd", Installs[i], 0)
InstallFailed ==
  \E i \in 1..Len(steplog) :
    /\ i <= Len(Installs)
    /\ steplog[i].kind = "cmd" /\ steplog[i].name = Installs[i] /\ steplog[i].rc # 0

PromptLines ==
  << << "Entrez le nom d'utilisateur de la base de donnees: " >>,
     << "Entrez le mot de passe de la base de donnees: " >>,
     << "Entrez le nom de la base de donnees: " >>,
     << "Entrez l'hote de la base de donnees: " >> >>
BeforeInstall ==
  { "input_db_user", "input_db_password", "input_db_name", "input_db_host",
    "db_url", "info", "install_auth" }

\* C16 -- automate_better_auth started on a path that does not exist: the
\* path is not checked, the run goes through the prompts to the first install
\* and can end only there, with a nonzero exit, once the four prompts have
\* been asked and the install command announced; no child is started, no step
\* is executed, the directory is never created and no file is written.
C16_MissingPathFailsAtInstall ==
  (script = "better_auth" /\ ~before.isdir) =>
    /\ pc \in BeforeInstall \cup {"exited"}
    /\ ~isdir /\ dirs = before.dirs /\ files = before.files /\ files = <<>>
    /\ steplog = <<>> /\ child = ""
    /\ pc \in {"db_url", "info", "install_auth", "exited"} =>
         \A i \in 1..4 : Printed(PromptLines[i])
    /\ pc = "exited" =>
         /\ exitCode # 0
         /\ exitedBy = "exception"
         /\ Printed(<< "> ", ExpectedCommands(args.pm)[1] >>)
         /\ LastLine = Traceback("FileNotFoundError")
         /\ ~Printed(<< "> ", ExpectedCommands(args.pm)[2] >>)

C16_Witness ==
  /\ script = "better_auth" /\ ~before.isdir
  /\ pc = "exited" /\ exitCode = 1
  /\ Printed(PromptLines[4])
  /\ Printed(<< "> ", ExpectedCommands(args.pm)[1] >>)
  /\ ~isdir

Running == pc \notin {"idle", "exited"}
NoRepeat ==
  /\ \A i, j \in 1..Len(steplog) : steplog[i].name = steplog[j].name => i = j
  /\ \A i, j \in 1..Len(console) :
       (console[i] = console[j] /\ \E k \in 1..4 : console[i] = PromptLines[k]) => i = j

\* C17 -- termination, both scripts: no step is executed twice and no prompt
\* asked twice; a run ends only with status 0 after all its declared steps,
\* or with a nonzero status; and every run that has started eventually
\* reaches its end unless, from some point on, it waits forever for a spawned
\* command that never exits (so a run whose children all exit terminates).
C17_Termination ==
  /\ [](NoRepeat /\ IsPrefix(StepNames, DeclaredSteps))
  /\ [](pc = "exited" =>
          /\ exitCode \in {0, 1}
          /\ exitCode = 0 => StepNames = DeclaredSteps)
  /\ (Running ~> pc = "exited") \/ <>[](child # "")

\* a run of automate_better_auth that ended with status 0 after its ten steps
C17_Witness ==
  /\ script = "better_auth"
  /\ pc = "exited" /\ exitCode = 0
  /\ Len(steplog) = 10
  /\ child = ""

====
